---- MODULE Spec2Model ----
(***************************************************************************)
(* Grid Snake: depth-first backtracking search for a Hamiltonian path on a *)
(* rows x cols grid (src/grid_snake.py).  solve_snake validates a request  *)
(* and runs one of two strategies: _recursive (native call stack, modelled *)
(* as an explicit stack of activation records) or _non_recursive (explicit *)
(* frame stack path / path_dirn).  A cell (i, j) of the program is the     *)
(* tuple <<i, j>>; Python's 0-based direction index d selects              *)
(* search_dirns[d + 1].                                                    *)
(***************************************************************************)
EXTENDS Integers, Sequences, FiniteSets, TLC

VARIABLES
    search_dirns,   \* module-level list _search_dirns
    start_pos,      \* arguments of the solve_snake call in progress
    end_pos,
    size,
    method,
    visited,        \* the call's visited array: [cells of the grid -> BOOLEAN]
    path,           \* the call's path list
    path_dirn,      \* _non_recursive: direction index per path entry
    stack,          \* _recursive: activation records, outermost first
    ret,            \* _recursive: value of the return just executed
    phase,          \* "idle", "recursive", "non-recursive" or "done"
    outcome,        \* how the last call ended: "none", "returned" or "ValueError"
    result,         \* the list solve_snake returned
    last,           \* the caller's note of its previous call with these arguments
    main_i,         \* main(): index of the next method of its for loop
    chrs,           \* print_path: the character array, a list of rows
    entered         \* history: visited and path at the entry of each active
                    \* _recursive call, outermost first

vars == <<search_dirns, start_pos, end_pos, size, method, visited, path,
          path_dirn, stack, ret, phase, outcome, result, last, main_i, chrs,
          entered>>

\* -- Bounds of the model ----------------------------------------------------

\* Requests range over the grids of at most MaxCells cells.
MaxCells == 9

\* main's search is observed every MainBatch steps.
MainBatch == 50

\* -- Module-level data and pure functions -----------------------------------

\* The search directions in another order.
SearchDirnsReordered == << <<0, 1>>, <<1, 0>>, <<-1, 0>>, <<0, -1>> >>

\* _search_dirns = [(+1, 0), (-1, 0), (0, +1), (0, -1)]
SearchDirns == << <<1, 0>>, <<-1, 0>>, <<0, 1>>, <<0, -1>> >>

\* valid_pos with strict lower bounds (0 < pos[k]).
ValidPosStrict(pos, sz) ==
    /\ 0 < pos[1] /\ pos[1] < sz[1]
    /\ 0 < pos[2] /\ pos[2] < sz[2]

\* (0 <= pos[0] < size[0]) and (0 <= pos[1] < size[1])
valid_pos(pos, sz) ==
    /\ 0 <= pos[1] /\ pos[1] < sz[1]
    /\ 0 <= pos[2] /\ pos[2] < sz[2]

\* The index set of an array of shape size.
Cells(sz) == {c \in (0 .. sz[1] - 1) \X (0 .. sz[2] - 1) : TRUE}

\* np.zeros(size, dtype=bool)
zeros(sz) == [c \in Cells(sz) |-> FALSE]

\* next_pos with the components of the direction swapped.
NextPosTransposed(pos, delta) == <<pos[1] + delta[2], pos[2] + delta[1]>>

\* (pos[0] + d[0], pos[1] + d[1])
next_pos(pos, delta) == <<pos[1] + delta[1], pos[2] + delta[2]>>

\* The solution test without its length check.
IsSolutionAnyLength(pos, endp, p, sz) == pos = endp

\* The solution test without its end_pos check.
IsSolutionAnyEnd(pos, endp, p, sz) == Len(p) = sz[1] * sz[2]

\* pos == end_pos and len(path) == size[0] * size[1]
IsSolution(pos, endp, p, sz) == pos = endp /\ Len(p) = sz[1] * sz[2]

\* The prune test without its visited check.
BlockedOffGridOnly(pos, sz, vis) == ~valid_pos(pos, sz)

\* not valid_pos(pos, size) or visited[*pos]
Blocked(pos, sz, vis) == ~valid_pos(pos, sz) \/ vis[pos]

\* n_dirns one short: the last direction is never tried.
NDirnsShort == Len(search_dirns) - 1

n_dirns == Len(search_dirns)

\* list.pop(), list[-1] and list[-1] = v
Pop(s) == SubSeq(s, 1, Len(s) - 1)

Top(s) == s[Len(s)]

SetTop(s, v) == [s EXCEPT ![Len(s)] = v]

\* -- Requests ---------------------------------------------------------------

Methods == {"recursive", "non-recursive", "other"}

Sizes == {sz \in (0 .. MaxCells) \X (0 .. MaxCells) : sz[1] * sz[2] <= MaxCells}

\* The cells of the grid and the four positions just outside its edges.
Positions(sz) ==
    Cells(sz) \cup {<<-1, 0>>, <<0, -1>>, <<sz[1], 0>>, <<0, sz[2]>>}

NoCall == [method |-> "none", outcome |-> "none", result |-> <<>>]

ThisCall == [method |-> method, outcome |-> outcome, result |-> result]

\* -- solve_snake ------------------------------------------------------------

\* The activation record of a call _recursive(pos, ...), at its first line.
Frame(pos) == [pos |-> pos, pc |-> "entry", d |-> 0]

\* raise ValueError(...)
Raise ==
    /\ phase' = "done"
    /\ outcome' = "ValueError"
    /\ result' = <<>>
    /\ UNCHANGED <<visited, path, path_dirn, stack, ret>>

\* visited[*pos] = True
Mark(vis, pos) == [vis EXCEPT ![pos] = TRUE]

\* A backtrack that leaves the position marked.
UnmarkNothing(vis, pos) == vis

\* visited[*pos] = False
Unmark(vis, pos) == [vis EXCEPT ![pos] = FALSE]

\* solve_snake without its start_pos == end_pos check.
DegenerateNever(s, e) == FALSE

\* start_pos == end_pos
Degenerate(s, e) == s = e

\* A dispatch whose last branch runs _non_recursive instead of raising.
DispatchElse(m) == IF m = "recursive" THEN "recursive" ELSE "non-recursive"

\* if method == 'recursive' ... elif method == 'non-recursive' ... else raise
Dispatch(m) ==
    IF m = "recursive" THEN "recursive"
    ELSE IF m = "non-recursive" THEN "non-recursive"
    ELSE "raise"

\* A visited array kept between calls on grids of the same size.
ZerosCached(sz) == IF DOMAIN visited = Cells(sz) THEN visited ELSE zeros(sz)

\* visited = np.zeros(size, dtype=bool)
NewVisited(sz) == zeros(sz)

\* The body of solve_snake up to the first step of the chosen strategy.
solve_snake(s, e, sz, m) ==
    /\ start_pos' = s
    /\ end_pos' = e
    /\ size' = sz
    /\ method' = m
    /\ IF ~valid_pos(s, sz) THEN Raise
       ELSE IF ~valid_pos(e, sz) THEN Raise
       ELSE IF Degenerate(s, e) THEN Raise
       ELSE IF Dispatch(m) = "recursive" THEN
            /\ visited' = NewVisited(sz)
            /\ path' = <<>>
            /\ stack' = <<Frame(s)>>
            /\ ret' = "none"
            /\ phase' = "recursive"
            /\ outcome' = "none"
            /\ result' = <<>>
            /\ UNCHANGED path_dirn
       ELSE IF Dispatch(m) = "non-recursive" THEN
            /\ path' = <<s>>
            /\ path_dirn' = <<0>>
            /\ visited' = Mark(NewVisited(sz), s)
            /\ phase' = "non-recursive"
            /\ outcome' = "none"
            /\ result' = <<>>
            /\ UNCHANGED <<stack, ret>>
       ELSE Raise
    /\ UNCHANGED search_dirns

\* -- The state of a search ---------------------------------------------------

\* The locals of the call in progress and what it has returned so far.
SearchState ==
    [visited |-> visited, path |-> path, path_dirn |-> path_dirn,
     stack |-> stack, ret |-> ret, phase |-> phase, outcome |-> outcome,
     result |-> result]

BecomesSearch(st) ==
    /\ visited' = st.visited
    /\ path' = st.path
    /\ path_dirn' = st.path_dirn
    /\ stack' = st.stack
    /\ ret' = st.ret
    /\ phase' = st.phase
    /\ outcome' = st.outcome
    /\ result' = st.result

\* What a call of _recursive finds on entry.
Note(vis, p) == [visited |-> vis, path |-> p]

\* The notes after a step to st: a call adds the note of what it finds, a
\* return drops the note of the call that returned.
Notes(st) ==
    IF Len(st.stack) > Len(stack) THEN Append(entered, Note(visited, path))
    ELSE IF Len(st.stack) < Len(stack) THEN Pop(entered)
    ELSE entered

Becomes(st) ==
    /\ BecomesSearch(st)
    /\ entered' = Notes(st)
    /\ UNCHANGED <<search_dirns, start_pos, end_pos, size, method, last,
                   main_i, chrs>>

\* -- _recursive -------------------------------------------------------------

\* The stack after the top call returns v: a caller that gets False moves on
\* to the next direction of its for loop.
ReturnTo(stk, v) ==
    LET s == Pop(stk) IN
    IF s # <<>> /\ v = "False"
    THEN SetTop(s, [Top(s) EXCEPT !.d = @ + 1])
    ELSE s

SetPc(stk, pc) == SetTop(stk, [Top(stk) EXCEPT !.pc = pc])

\* Entry of a call: prune, or mark the position as visited.
recursive_entry(st) ==
    LET pos == Top(st.stack).pos IN
    IF Blocked(pos, size, st.visited)
    THEN [st EXCEPT !.stack = ReturnTo(@, "False"), !.ret = "False"]
    ELSE [st EXCEPT !.visited = Mark(@, pos),
                    !.stack = SetPc(@, "append"),
                    !.ret = "none"]

\* Add the position to the path and test for the solution.
recursive_append(st) ==
    LET pos == Top(st.stack).pos
        p == Append(st.path, pos)
    IN
    IF IsSolution(pos, end_pos, p, size)
    THEN [st EXCEPT !.path = p, !.stack = ReturnTo(@, "True"), !.ret = "True"]
    ELSE [st EXCEPT !.path = p, !.stack = SetPc(@, "loop"), !.ret = "none"]

\* A for loop that ignores what the recursive call returned and goes on to
\* the next direction.
RecursiveLoopIgnoresTrue(st) ==
    LET pos == Top(st.stack).pos
        d == IF st.ret = "True" THEN Top(st.stack).d + 1 ELSE Top(st.stack).d
    IN
    IF d < Len(search_dirns)
    THEN [st EXCEPT !.stack = Append(SetTop(@, [Top(@) EXCEPT !.d = d]),
                                     Frame(next_pos(pos, search_dirns[d + 1]))),
                    !.ret = "none"]
    ELSE [st EXCEPT !.visited = Unmark(@, pos),
                    !.stack = SetPc(@, "pop"),
                    !.ret = "none"]

\* One round of the for loop: pass a True on, call the next direction, or
\* start the backtrack by clearing the position.
recursive_loop(st) ==
    LET pos == Top(st.stack).pos
        d == Top(st.stack).d
    IN
    IF st.ret = "True"
    THEN [st EXCEPT !.stack = ReturnTo(@, "True")]
    ELSE IF d < Len(search_dirns)
    THEN [st EXCEPT !.stack = Append(@, Frame(next_pos(pos, search_dirns[d + 1]))),
                    !.ret = "none"]
    ELSE [st EXCEPT !.visited = Unmark(@, pos),
                    !.stack = SetPc(@, "pop"),
                    !.ret = "none"]

\* A return of False that leaves the position on the path.
RecursivePopKeepsPath(st) ==
    [st EXCEPT !.stack = ReturnTo(@, "False"), !.ret = "False"]

\* Remove the position from the path and return False.
recursive_pop(st) ==
    [st EXCEPT !.path = Pop(@), !.stack = ReturnTo(@, "False"), !.ret = "False"]

\* solve_snake after the top-level call: return path if success else []
solve_snake_return(st) ==
    [st EXCEPT !.phase = "done",
               !.outcome = "returned",
               !.result = IF st.ret = "True" THEN st.path ELSE <<>>]

AtPc(pc) == phase = "recursive" /\ stack # <<>> /\ Top(stack).pc = pc

RecursiveEntry == AtPc("entry") /\ Becomes(recursive_entry(SearchState))

RecursiveAppend == AtPc("append") /\ Becomes(recursive_append(SearchState))

RecursiveLoop == AtPc("loop") /\ Becomes(recursive_loop(SearchState))

RecursivePop == AtPc("pop") /\ Becomes(recursive_pop(SearchState))

SolveSnakeReturn ==
    /\ phase = "recursive"
    /\ stack = <<>>
    /\ Becomes(solve_snake_return(SearchState))

\* -- _non_recursive ---------------------------------------------------------

\* An advance that leaves the direction index as it is.
AdvanceStuck(pd) == pd

\* An advance that skips a direction.
AdvanceTwice(pd) == SetTop(pd, Top(pd) + 2)

\* path_dirn[-1] += 1
Advance(pd) == SetTop(pd, Top(pd) + 1)

\* One iteration of the while loop.
non_recursive_iter(st) ==
    LET pos == Top(st.path) IN
    IF IsSolution(pos, end_pos, st.path, size)
    THEN [st EXCEPT !.phase = "done", !.outcome = "returned", !.result = st.path]
    ELSE IF Top(st.path_dirn) >= n_dirns
    THEN IF Pop(st.path) = <<>>
         THEN [st EXCEPT !.visited = Unmark(@, pos),
                         !.path = Pop(@),
                         !.path_dirn = Pop(@),
                         !.phase = "done",
                         !.outcome = "returned",
                         !.result = <<>>]
         ELSE [st EXCEPT !.visited = Unmark(@, pos),
                         !.path = Pop(@),
                         !.path_dirn = Advance(Pop(@))]
    ELSE LET np == next_pos(pos, search_dirns[Top(st.path_dirn) + 1]) IN
         IF Blocked(np, size, st.visited)
         THEN [st EXCEPT !.path_dirn = Advance(@)]
         ELSE [st EXCEPT !.path = Append(@, np),
                         !.path_dirn = Append(@, 0),
                         !.visited = Mark(@, np)]

NonRecursiveIter ==
    /\ phase = "non-recursive"
    /\ Becomes(non_recursive_iter(SearchState))

\* -- print_path -------------------------------------------------------------

\* The glyphs: the open circle of a grid point, start, end, the four arrows.
Circle == "o"

ArrowDown == "v"

ArrowUp == "^"

ArrowRight == ">"

ArrowLeft == "<"

\* chrs[r, c] = ch, with the program's 0-based row and column
Put(g, r, c, ch) == [g EXCEPT ![r + 1][c + 1] = ch]

\* chrs = np.full(chrs_size, ' '); chrs[0:chrs_size[0]:2, 0:chrs_size[1]:4] = circle
EmptyGrid(sz) ==
    [r \in 1 .. 2 * sz[1] - 1 |->
        [c \in 1 .. 4 * sz[2] - 3 |->
            IF (r - 1) % 2 = 0 /\ (c - 1) % 4 = 0 THEN Circle ELSE " "]]

\* An arrow drawn on the next grid point instead of between the two.
SymbolPosWide(pt1, delta) == <<pt1[1] * 2 + delta[1] * 2, pt1[2] * 4 + delta[2] * 4>>

\* symbol_pos = (pt1[0] * 2 + d[0], pt1[1] * 4 + d[1] * 2)
SymbolPos(pt1, delta) == <<pt1[1] * 2 + delta[1], pt1[2] * 4 + delta[2] * 2>>

\* One round of the loop over zip(path, path[1:]).
DrawEdge(g, pt1, pt2) ==
    LET delta == <<pt2[1] - pt1[1], pt2[2] - pt1[2]>>
        sp == SymbolPos(pt1, delta)
    IN
    IF delta = <<1, 0>> THEN Put(g, sp[1], sp[2], ArrowDown)
    ELSE IF delta = <<-1, 0>> THEN Put(g, sp[1], sp[2], ArrowUp)
    ELSE IF delta = <<0, 1>> THEN Put(g, sp[1], sp[2], ArrowRight)
    ELSE IF delta = <<0, -1>> THEN Put(g, sp[1], sp[2], ArrowLeft)
    ELSE g

RECURSIVE DrawEdges(_, _, _)
DrawEdges(g, p, i) ==
    IF i >= Len(p) THEN g ELSE DrawEdges(DrawEdge(g, p[i], p[i + 1]), p, i + 1)

\* The array print_path prints, row by row, for a non-empty path.
print_path(p, sz) ==
    LET withS == Put(EmptyGrid(sz), p[1][1] * 2, p[1][2] * 4, "S")
        withE == Put(withS, p[Len(p)][1] * 2, p[Len(p)][2] * 4, "E")
    IN DrawEdges(withE, p, 1)

\* -- Callers ----------------------------------------------------------------

Init ==
    /\ search_dirns = SearchDirns
    /\ start_pos = <<0, 0>>
    /\ end_pos = <<0, 0>>
    /\ size = <<0, 0>>
    /\ method = "none"
    /\ visited = zeros(<<0, 0>>)
    /\ path = <<>>
    /\ path_dirn = <<>>
    /\ stack = <<>>
    /\ ret = "none"
    /\ phase = "idle"
    /\ outcome = "none"
    /\ result = <<>>
    /\ last = NoCall
    /\ main_i = 0
    /\ chrs = <<>>
    /\ entered = <<>>

\* The notes when solve_snake has made its call of _recursive, if it has.
FirstNote == IF phase' = "recursive" THEN <<Note(visited', path')>> ELSE <<>>

\* A first call with any request.
Call ==
    /\ phase = "idle"
    /\ \E sz \in Sizes :
       \E s \in Positions(sz), e \in Positions(sz), m \in Methods :
           solve_snake(s, e, sz, m)
    /\ last' = NoCall
    /\ chrs' = <<>>
    /\ entered' = FirstNote
    /\ UNCHANGED main_i

\* Another call with the same start, end and size, by any method.
CallAgain ==
    /\ phase = "done"
    /\ \E m \in Methods : solve_snake(start_pos, end_pos, size, m)
    /\ last' = ThisCall
    /\ chrs' = <<>>
    /\ entered' = FirstNote
    /\ UNCHANGED main_i

\* The caller drops the result; the call's locals are gone.
Forget ==
    /\ phase = "done"
    /\ main_i = 0
    /\ start_pos' = <<0, 0>>
    /\ end_pos' = <<0, 0>>
    /\ size' = <<0, 0>>
    /\ method' = "none"
    /\ visited' = zeros(<<0, 0>>)
    /\ path' = <<>>
    /\ path_dirn' = <<>>
    /\ stack' = <<>>
    /\ ret' = "none"
    /\ phase' = "idle"
    /\ outcome' = "none"
    /\ result' = <<>>
    /\ last' = NoCall
    /\ chrs' = <<>>
    /\ entered' = <<>>
    /\ UNCHANGED <<search_dirns, main_i>>

\* The caller prints the path it got: if path: print_path(path, size)
PrintPath ==
    /\ phase = "done"
    /\ outcome = "returned"
    /\ result # <<>>
    /\ chrs' = print_path(result, size)
    /\ UNCHANGED <<search_dirns, start_pos, end_pos, size, method, visited,
                   path, path_dirn, stack, ret, phase, outcome, result, last,
                   main_i, entered>>

\* -- main ------------------------------------------------------------------

MainStart == <<0, 0>>

MainEnd == <<0, 3>>

MainSize == <<5, 5>>

MainMethods == <<"recursive", "non-recursive">>

\* One round of main's for loop: solve_snake with the next method.
MainCall ==
    /\ phase \in {"idle", "done"}
    /\ main_i < Len(MainMethods)
    /\ solve_snake(MainStart, MainEnd, MainSize, MainMethods[main_i + 1])
    /\ last' = IF phase = "done" THEN ThisCall ELSE NoCall
    /\ main_i' = main_i + 1
    /\ chrs' = <<>>
    /\ UNCHANGED entered

\* The next step of the search in progress, whichever strategy runs.
Step(st) ==
    IF st.phase = "non-recursive" THEN non_recursive_iter(st)
    ELSE IF st.stack = <<>> THEN solve_snake_return(st)
    ELSE IF Top(st.stack).pc = "entry" THEN recursive_entry(st)
    ELSE IF Top(st.stack).pc = "append" THEN recursive_append(st)
    ELSE IF Top(st.stack).pc = "loop" THEN recursive_loop(st)
    ELSE recursive_pop(st)

RECURSIVE StepN(_, _)
StepN(st, k) ==
    IF k = 0 \/ st.phase = "done" THEN st ELSE StepN(Step(st), k - 1)

\* main's call runs on: the next MainBatch steps of the search, or all that
\* are left of it; once it has returned, main prints a path that was found.
MainRun ==
    /\ phase \in {"recursive", "non-recursive"}
    /\ LET st == StepN(SearchState, MainBatch) IN
       /\ BecomesSearch(st)
       /\ chrs' = IF st.phase = "done" /\ st.result # <<>>
                  THEN print_path(st.result, size)
                  ELSE chrs
    /\ UNCHANGED <<search_dirns, start_pos, end_pos, size, method, last,
                   main_i, entered>>

Search ==
    \/ RecursiveEntry
    \/ RecursiveAppend
    \/ RecursiveLoop
    \/ RecursivePop
    \/ SolveSnakeReturn
    \/ NonRecursiveIter

Next == Call \/ CallAgain \/ Forget \/ PrintPath \/ Search

Spec == Init /\ [][Next]_vars

\* Single calls, each from the idle state.  Every call overwrites all of its
\* locals, so a search after CallAgain runs as it does after Call.
NextOnce == Call \/ Forget \/ Search

\* A search in progress is never suspended: solve_snake runs to its return.
SpecFair == Init /\ [][NextOnce]_vars /\ WF_vars(Search)

MainNext == MainCall \/ MainRun

SpecMain == Init /\ [][MainNext]_vars

\* -- Properties -------------------------------------------------------------

Strategies == {"recursive", "non-recursive"}

\* solve_snake has returned a list (it did not raise).
Returned == phase = "done" /\ outcome = "returned"

\* The previous call had the same arguments and the other strategy.
BothStrategies ==
    /\ method \in Strategies
    /\ last.method \in Strategies
    /\ last.method # method

\* a and b differ by one unit step along exactly one axis.
Adjacent(a, b) ==
    \/ a[1] = b[1] /\ (a[2] - b[2]) \in {-1, 1}
    \/ a[2] = b[2] /\ (a[1] - b[1]) \in {-1, 1}

\* p is a Hamiltonian path of the sz grid from s to e.
ValidPath(p, s, e, sz) ==
    /\ Len(p) = sz[1] * sz[2]
    /\ p[1] = s
    /\ p[Len(p)] = e
    /\ \A i \in 1 .. Len(p) : p[i] \in Cells(sz)
    /\ \A i, j \in 1 .. Len(p) : i # j => p[i] # p[j]
    /\ \A c \in Cells(sz) : \E i \in 1 .. Len(p) : p[i] = c
    /\ \A i \in 1 .. Len(p) - 1 : Adjacent(p[i], p[i + 1])

\* Some walk from cur through every cell of rest, each once, ends at e.
RECURSIVE Extends(_, _, _)
Extends(cur, rest, e) ==
    IF rest = {} THEN cur = e
    ELSE \E c \in rest : Adjacent(cur, c) /\ Extends(c, rest \ {c}, e)

HamiltonianPathExists(s, e, sz) == Extends(s, Cells(sz) \ {s}, e)

\* C1: a non-empty list returned by solve_snake, by either strategy, has
\* length rows*cols, starts at start, ends at end, holds every cell of the
\* grid exactly once, and its consecutive cells are one unit step apart.
TheoremC1 ==
    (Returned /\ result # <<>>) => ValidPath(result, start_pos, end_pos, size)

\* Both strategies have returned a path on a grid with a turn in it.
WitnessC1 ==
    /\ Returned /\ result # <<>>
    /\ BothStrategies /\ last.result # <<>>
    /\ size[1] >= 2 /\ size[2] >= 3

\* C2: no false negatives: when solve_snake returns the empty list, no
\* Hamiltonian path from start to end exists on the grid.
TheoremC2 ==
    (Returned /\ result = <<>>) =>
        ~HamiltonianPathExists(start_pos, end_pos, size)

\* Both strategies have exhausted a 3 x 3 grid and returned the empty list.
WitnessC2 ==
    /\ Returned /\ result = <<>>
    /\ BothStrategies /\ last.result = <<>>
    /\ size = <<3, 3>>

\* C3: on the same start, end and size, the recursive and the non-recursive
\* strategy return the identical list.
TheoremC3 ==
    (Returned /\ BothStrategies) =>
        (last.outcome = "returned" /\ last.result = result)

\* The two strategies have been compared on a request with several
\* Hamiltonian paths, each returning one.
WitnessC3 ==
    /\ Returned /\ BothStrategies
    /\ result # <<>>
    /\ size = <<2, 4>>
    /\ start_pos = <<0, 0>>
    /\ end_pos = <<1, 0>>

\* C4 as stated: on main's example (5 x 5, start (0,0), end (0,3)) each
\* strategy returns a valid path of 25 cells, and the second strategy returns
\* the same path as the first.
ExampleFindsPath ==
    Returned =>
        /\ ValidPath(result, MainStart, MainEnd, MainSize)
        /\ (last.method # "none" => last.result = result)

\* C4, amended: on main's example both strategies return the empty list, the
\* same result as each other, and indeed no Hamiltonian path from (0,0) to
\* (0,3) exists on the 5 x 5 grid.
TheoremC4 ==
    Returned =>
        /\ <<start_pos, end_pos, size>> = <<MainStart, MainEnd, MainSize>>
        /\ result = <<>>
        /\ (last.method # "none" =>
                last.outcome = "returned" /\ last.result = result)
        /\ ~HamiltonianPathExists(MainStart, MainEnd, MainSize)

\* main has run the recursive and then the non-recursive strategy to the end.
WitnessC4 ==
    /\ Returned
    /\ main_i = Len(MainMethods)
    /\ method = "non-recursive"
    /\ last.method = "recursive"
    /\ last.outcome = "returned"

\* C5: termination: every search that solve_snake starts, by either strategy,
\* ends after finitely many steps with solve_snake returning a list (the path
\* on success, the empty list when the search is exhausted).
TheoremC5 == (phase \in Strategies) ~> Returned

\* An exhaustive search of a 3 x 3 grid, the longest kind, has ended.
WitnessC5 ==
    /\ Returned
    /\ size = <<3, 3>>
    /\ result = <<>>
    /\ last = NoCall

\* An observation point of a search: the entry to a _recursive call, the
\* state a _recursive call returns in (up to solve_snake's own return), the
\* top of an iteration of _non_recursive's loop, and _non_recursive's return.
ObservationPoint ==
    \/ phase = "recursive" /\ stack # <<>> /\ Top(stack).pc = "entry"
    \/ phase = "recursive" /\ ret # "none"
    \/ Returned /\ method = "recursive"
    \/ phase = "non-recursive"
    \/ Returned /\ method = "non-recursive"

OnPath(c) == \E i \in 1 .. Len(path) : path[i] = c

\* C6: at every observation point of either strategy, a cell is marked in
\* visited exactly when it is on the path in progress, and the path holds no
\* cell twice.
TheoremC6 ==
    ObservationPoint =>
        /\ DOMAIN visited = Cells(size)
        /\ \A c \in Cells(size) : visited[c] <=> OnPath(c)
        /\ \A i, j \in 1 .. Len(path) : i # j => path[i] # path[j]

\* A _recursive call has just returned False to a caller three or more cells
\* down the path.
WitnessC6 ==
    /\ phase = "recursive"
    /\ ret = "False"
    /\ Len(path) >= 3
    /\ Len(stack) = Len(path)
    /\ Top(stack).d >= 2

InGrid(pos, sz) == pos \in Cells(sz)

\* The request breaks a precondition of solve_snake.
BadRequest(s, e, sz) ==
    \/ sz[1] <= 0
    \/ sz[2] <= 0
    \/ ~InGrid(s, sz)
    \/ ~InGrid(e, sz)
    \/ s = e

\* This step is a call of solve_snake.
CallStep == phase \in {"idle", "done"} /\ phase' # "idle"

Raised == phase = "done" /\ outcome = "ValueError"

RaisedAtOnce ==
    /\ phase' = "done"
    /\ outcome' = "ValueError"
    /\ result' = <<>>
    /\ UNCHANGED <<visited, path, path_dirn, stack, ret>>

\* C7: a call whose start or end is outside the grid, whose start equals its
\* end, or whose rows or cols is not positive ends in ValueError in the call
\* step itself: no visited set or path is created, no search step is or
\* becomes possible, and no list is ever returned for such a request.
TheoremC7 ==
    /\ [][(CallStep /\ BadRequest(start_pos', end_pos', size')) => RaisedAtOnce]_vars
    /\ []((phase # "idle" /\ BadRequest(start_pos, end_pos, size)) =>
            (Raised /\ ~ENABLED Search))

\* The only request a 1 x 1 grid admits within its bounds has been refused.
WitnessC7 ==
    /\ Raised
    /\ size = <<1, 1>>
    /\ start_pos = <<0, 0>>
    /\ end_pos = <<0, 0>>
    /\ method \in Strategies

\* C8: a valid request (start and end in the grid, start # end, a known
\* strategy) never raises: once solve_snake is done its outcome is a returned
\* list, either empty or of exactly rows*cols cells.
TheoremC8 ==
    (/\ phase = "done"
     /\ ~BadRequest(start_pos, end_pos, size)
     /\ method \in Strategies) =>
        /\ outcome = "returned"
        /\ Len(result) \in {0, size[1] * size[2]}

\* On the 2 x 2 grid with start and end at opposite corners the search has
\* returned the empty list as a normal value.
WitnessC8 ==
    /\ Returned
    /\ size = <<2, 2>>
    /\ start_pos = <<0, 0>>
    /\ end_pos = <<1, 1>>
    /\ result = <<>>

\* C9: a call with valid, distinct start and end and a method that is neither
\* 'recursive' nor 'non-recursive' ends in ValueError in the call step itself,
\* creating no visited set or path, and is never searched or answered with a
\* list.
TheoremC9 ==
    /\ [][(/\ CallStep
           /\ ~BadRequest(start_pos', end_pos', size')
           /\ method' \notin Strategies) => RaisedAtOnce]_vars
    /\ []((/\ phase # "idle"
           /\ ~BadRequest(start_pos, end_pos, size)
           /\ method \notin Strategies) => (Raised /\ ~ENABLED Search))

\* An unknown method has been refused right after a successful recursive
\* search with the same arguments, whose locals are left as they were.
WitnessC9 ==
    /\ Raised
    /\ method = "other"
    /\ ~BadRequest(start_pos, end_pos, size)
    /\ last.method = "recursive"
    /\ last.result # <<>>
    /\ path = last.result

\* Every search starts from an all-false visited set and a fresh path
\* (_non_recursive with its start already marked and on the path).
FreshSearch ==
    /\ phase' = "recursive" =>
        /\ visited' = [c \in Cells(size') |-> FALSE]
        /\ path' = <<>>
    /\ phase' = "non-recursive" =>
        /\ visited' = [c \in Cells(size') |-> c = start_pos']
        /\ path' = <<start_pos'>>

\* C10: a call repeated with the same start, end, size and method ends the
\* same way with the identical result, whatever was called before and however
\* it ended; every search starts from a fresh visited set and path; and no
\* step modifies _search_dirns.
TheoremC10 ==
    /\ []((phase = "done" /\ last.method = method) =>
            (last.outcome = outcome /\ last.result = result))
    /\ [][CallStep => FreshSearch]_vars
    /\ [][search_dirns' = search_dirns /\ search_dirns = SearchDirns]_vars

\* A recursive search of the 3 x 3 grid has been repeated right after it
\* succeeded, and has returned a path again.
WitnessC10 ==
    /\ Returned
    /\ method = "recursive"
    /\ last.method = "recursive"
    /\ last.result # <<>>
    /\ size = <<3, 3>>

\* print_path has built its array for the returned path.
Printed == chrs # <<>>

\* The places of the array that hold the glyph ch.
Places(ch) ==
    {rc \in (1 .. Len(chrs)) \X (1 .. 4 * size[2] - 3) : chrs[rc[1]][rc[2]] = ch}

\* The place of the grid point of cell c, as row and column of the array.
GridPoint(c) == <<2 * c[1] + 1, 4 * c[2] + 1>>

\* C11: for a path returned by a successful search, print_path builds
\* 2*rows-1 lines of 4*cols-3 characters each, with exactly one 'S', at the
\* grid point of start, exactly one 'E', at the grid point of end, and every
\* other grid point still the circle: no arrow is drawn over any of them.
TheoremC11 ==
    Printed =>
        /\ Len(chrs) = 2 * size[1] - 1
        /\ \A r \in 1 .. Len(chrs) : Len(chrs[r]) = 4 * size[2] - 3
        /\ Places("S") = {GridPoint(start_pos)}
        /\ Places("E") = {GridPoint(end_pos)}
        /\ \A c \in Cells(size) \ {start_pos, end_pos} :
               chrs[GridPoint(c)[1]][GridPoint(c)[2]] = Circle

\* A path through the 3 x 3 grid, with arrows of all four kinds, is printed.
WitnessC11 ==
    /\ Printed
    /\ size = <<3, 3>>
    /\ \A a \in {ArrowDown, ArrowUp, ArrowRight, ArrowLeft} : Places(a) # {}

\* This step is the return of the top _recursive call with the value v.
ReturnStep(v) ==
    /\ phase = "recursive"
    /\ stack # <<>>
    /\ stack' # stack
    /\ Len(stack') = Len(stack) - 1
    /\ ret' = v

\* C12: whenever a _recursive call returns False, pruned at entry or after
\* all four directions failed, visited and path are what they were when the
\* call was entered (the note taken when it was called); after a failed top-level call visited is all-false and
\* path is empty.
TheoremC12 ==
    /\ [][ReturnStep("False") =>
            /\ visited' = Top(entered).visited
            /\ path' = Top(entered).path]_vars
    /\ []((phase = "recursive" /\ stack = <<>> /\ ret = "False") =>
            /\ visited = [c \in Cells(size) |-> FALSE]
            /\ path = <<>>)

\* The top-level call on a 3 x 3 grid has returned False: every direction
\* from start was tried and failed.
WitnessC12 ==
    /\ phase = "recursive"
    /\ stack = <<>>
    /\ ret = "False"
    /\ size = <<3, 3>>

\* The active _recursive calls that have passed their entry test.
PastEntry == {i \in 1 .. Len(stack) : stack[i].pc # "entry"}

\* C13 as stated: the number of simultaneously active _recursive calls never
\* exceeds rows * cols.
DepthWithinCells ==
    phase = "recursive" => Len(stack) <= size[1] * size[2]

\* C13: the number of simultaneously active _recursive calls never exceeds
\* rows * cols + 1: at most rows * cols calls have passed their entry test,
\* and only the innermost call can still be at it.
TheoremC13 ==
    phase = "recursive" =>
        /\ Len(stack) <= size[1] * size[2] + 1
        /\ Cardinality(PastEntry) <= size[1] * size[2]
        /\ \A i \in 1 .. Len(stack) - 1 : i \in PastEntry

\* Every cell is on the path, the last is not end_pos, and a further call
\* has been made: rows * cols + 1 calls are active.
WitnessC13 ==
    /\ phase = "recursive"
    /\ size = <<3, 3>>
    /\ Len(path) = size[1] * size[2]
    /\ Len(stack) = size[1] * size[2] + 1

\* The states of the iterative strategy's loop, by its top frame.
Success ==
    /\ phase = "non-recursive"
    /\ Top(path) = end_pos
    /\ Len(path) = size[1] * size[2]

Backtracking ==
    /\ phase = "non-recursive"
    /\ ~Success
    /\ Top(path_dirn) >= 4

Exploring ==
    /\ phase = "non-recursive"
    /\ ~Success
    /\ Top(path_dirn) < 4

\* C14: a Backtracking step of the iterative strategy unmarks the top cell
\* and pops it from path and path_dirn, leaving every other visited entry
\* and every other frame as it was; if the stack is then empty the search
\* returns []; otherwise the new top frame's direction index grows by
\* exactly one and the loop goes on.
TheoremC14 ==
    [][Backtracking =>
        /\ visited' = [c \in DOMAIN visited |->
                          IF c = Top(path) THEN FALSE ELSE visited[c]]
        /\ path' = SubSeq(path, 1, Len(path) - 1)
        /\ Len(path_dirn') = Len(path_dirn) - 1
        /\ \A i \in 1 .. Len(path_dirn) - 2 : path_dirn'[i] = path_dirn[i]
        /\ IF Len(path) = 1
           THEN /\ phase' = "done"
                /\ outcome' = "returned"
                /\ result' = <<>>
           ELSE /\ phase' = "non-recursive"
                /\ path_dirn'[Len(path_dirn) - 1] =
                       path_dirn[Len(path_dirn) - 1] + 1]_vars

\* The loop goes on after a backtrack: the neighbour in the direction just
\* before the top frame's index is free, so it was pushed and popped again.
WitnessC14 ==
    /\ phase = "non-recursive"
    /\ Len(path) >= 3
    /\ Top(path_dirn) >= 1
    /\ LET n == <<Top(path)[1] + SearchDirns[Top(path_dirn)][1],
                  Top(path)[2] + SearchDirns[Top(path_dirn)][2]>> IN
       n \in Cells(size) /\ ~visited[n]

\* The neighbour of the top cell in the top frame's direction.
Neighbour ==
    <<Top(path)[1] + SearchDirns[Top(path_dirn) + 1][1],
      Top(path)[2] + SearchDirns[Top(path_dirn) + 1][2]>>

NeighbourFree == Neighbour \in Cells(size) /\ ~visited[Neighbour]

\* C15: an Exploring step of the iterative strategy takes the neighbour of
\* the top cell in the top frame's direction.  If it is off the grid or
\* visited, only the top frame's index changes, by one; otherwise a frame
\* with index 0 is pushed for it, it is appended to path and marked, and
\* nothing else changes: the parent frame keeps its index.
TheoremC15 ==
    [][Exploring =>
        /\ phase' = "non-recursive"
        /\ IF ~NeighbourFree
           THEN /\ path' = path
                /\ visited' = visited
                /\ Len(path_dirn') = Len(path_dirn)
                /\ \A i \in 1 .. Len(path_dirn) - 1 : path_dirn'[i] = path_dirn[i]
                /\ Top(path_dirn') = Top(path_dirn) + 1
           ELSE /\ path' = path \o <<Neighbour>>
                /\ path_dirn' = path_dirn \o <<0>>
                /\ visited' = [c \in DOMAIN visited |->
                                  IF c = Neighbour THEN TRUE ELSE visited[c]]]_vars

\* A frame was pushed from a parent whose index stays at 2, after the parent
\* advanced in place past blocked neighbours.
WitnessC15 ==
    /\ phase = "non-recursive"
    /\ Len(path) >= 3
    /\ Top(path_dirn) = 0
    /\ path_dirn[Len(path_dirn) - 1] = 2
    /\ ~(<<path[Len(path) - 1][1] + 1, path[Len(path) - 1][2]>> \in Cells(size))

\* A step of the iterative loop that pops the top frame.
PopStep == phase = "non-recursive" /\ Len(path') < Len(path)

\* A step of the iterative loop that advances the top frame's index in place.
AdvanceStep ==
    /\ phase = "non-recursive"
    /\ phase' = "non-recursive"
    /\ path' = path
    /\ path_dirn' # path_dirn

\* C16 as stated: after the top frame's index is advanced in place the frame
\* stays in Exploring unless its index now exceeds 4, and a frame is
\* unmarked and popped only when its index exceeds 4.
BacktracksAboveFour ==
    [][/\ (AdvanceStep /\ Top(path_dirn') <= 4) => Exploring'
       /\ PopStep => Top(path_dirn) > 4]_vars

\* C16: the top frame's index never exceeds 4; a frame is unmarked and
\* popped only when its index equals 4, the number of directions, and then
\* it is popped at once; a frame whose index is below 4 stays on the stack,
\* also after an advance in place.
TheoremC16 ==
    /\ [](phase = "non-recursive" => Top(path_dirn) <= 4)
    /\ [][/\ PopStep => Top(path_dirn) = 4
          /\ (phase = "non-recursive" /\ ~Success /\ Top(path_dirn) = 4)
                 => Len(path') = Len(path) - 1
          /\ (phase = "non-recursive" /\ Top(path_dirn) < 4)
                 => Len(path') >= Len(path)
          /\ (AdvanceStep /\ Top(path_dirn') < 4) => Exploring']_vars

\* The top frame's index was advanced in place from 3 to 4: the neighbour in
\* the last direction is off the grid or on the path.
WitnessC16 ==
    /\ phase = "non-recursive"
    /\ Len(path) >= 2
    /\ Top(path_dirn) = 4
    /\ LET n == <<Top(path)[1], Top(path)[2] - 1>> IN
       n \notin Cells(size) \/ visited[n]

\* Steps of a _recursive call, by what they do to visited and path.
Marks(c) == phase = "recursive" /\ ~visited[c] /\ visited'[c]

Unmarks(c) == phase = "recursive" /\ visited[c] /\ ~visited'[c]

Appends == phase = "recursive" /\ Len(path') > Len(path)

Removes == phase = "recursive" /\ Len(path') < Len(path)

PathCells == {path[i] : i \in 1 .. Len(path)}

\* C17 as stated: a call marks its cell first and appends it second, and the
\* backtrack undoes the two in reverse order: it removes the cell from path
\* first and unmarks it second.
UndoInReverseOrder ==
    [][/\ \A c \in DOMAIN visited :
              /\ Marks(c) => (c \notin PathCells /\ path' = path)
              /\ Unmarks(c) => (c \notin PathCells /\ path' = path)
       /\ Appends => (visited[Top(path')] /\ visited' = visited)
       /\ Removes => (visited[Top(path)] /\ visited' = visited)]_vars

\* C17: a call marks its cell first and appends it second, and the backtrack
\* undoes the two in the same order: it unmarks the cell, still the last of
\* path, first and removes it from path second, in the very next step.
TheoremC17 ==
    [][/\ \A c \in DOMAIN visited :
              /\ Marks(c) => (c \notin PathCells /\ path' = path)
              /\ Unmarks(c) => (c = Top(path) /\ path' = path)
       /\ Appends => (visited[Top(path')] /\ visited' = visited)
       /\ Removes => (~visited[Top(path)] /\ visited' = visited)
       /\ (phase = "recursive" /\ path # <<>> /\ ~visited[Top(path)])
              => path' = SubSeq(path, 1, Len(path) - 1)]_vars

\* Between the two undo steps of a backtracking call: its cell is unmarked
\* and still the last of path.
WitnessC17 ==
    /\ phase = "recursive"
    /\ Len(path) >= 3
    /\ ~visited[Top(path)]

\* A _recursive call has returned True: success was detected and is on its
\* way to solve_snake.
Unwinding == phase = "recursive" /\ ret = "True"

\* C18: once success is detected, every enclosing call returns True without
\* trying its remaining directions, visited and path are not modified again,
\* and the path solve_snake returns is the path at the moment of detection.
TheoremC18 ==
    [][/\ (phase = "recursive" /\ ret # "True" /\ ret' = "True") =>
              /\ Top(path') = end_pos
              /\ Len(path') = size[1] * size[2]
       /\ Unwinding =>
              /\ visited' = visited
              /\ path' = path
              /\ IF stack # <<>>
                 THEN /\ stack' = SubSeq(stack, 1, Len(stack) - 1)
                      /\ ret' = "True"
                      /\ phase' = "recursive"
                 ELSE /\ phase' = "done"
                      /\ outcome' = "returned"
                      /\ result' = path]_vars

\* Success is on its way up: inner calls have returned True, and the next
\* call to return has directions it has not tried.
WitnessC18 ==
    /\ Unwinding
    /\ size = <<3, 3>>
    /\ Len(stack) >= 1
    /\ Len(stack) <= Len(path) - 3
    /\ Top(stack).d < 3

\* C19: at the top of every iteration of the iterative loop, path and
\* path_dirn have the same length, between 1 and rows * cols; path[0] is
\* start_pos; every frame i below the top has an index d in 0..3 with
\* path[i + 1] = path[i] + _search_dirns[d]; the top frame's index is in
\* 0..4; and _search_dirns is only indexed with 0..3.
TheoremC19 ==
    phase = "non-recursive" =>
        /\ Len(path) = Len(path_dirn)
        /\ Len(path) \in 1 .. size[1] * size[2]
        /\ path[1] = start_pos
        /\ \A i \in 1 .. Len(path) - 1 :
               /\ path_dirn[i] \in 0 .. 3
               /\ path[i + 1] = <<path[i][1] + SearchDirns[path_dirn[i] + 1][1],
                                  path[i][2] + SearchDirns[path_dirn[i] + 1][2]>>
        /\ Top(path_dirn) \in 0 .. 4
        /\ (~Success /\ Top(path_dirn) < n_dirns) =>
               Top(path_dirn) + 1 \in DOMAIN search_dirns

\* A full stack on a 3 x 3 grid whose top frame has used up its directions
\* and whose lower frames hold the first and the last direction.
WitnessC19 ==
    /\ phase = "non-recursive"
    /\ size = <<3, 3>>
    /\ Len(path) = 9
    /\ Top(path_dirn) = 4
    /\ \E i, j \in 1 .. Len(path) - 1 : path_dirn[i] = 0 /\ path_dirn[j] = 3

\* The order of directions the claim ranks by: down, up, right, left.
DirnOrder == << <<1, 0>>, <<-1, 0>>, <<0, 1>>, <<0, -1>> >>

Moved(a, d) == <<a[1] + DirnOrder[d][1], a[2] + DirnOrder[d][2]>>

\* The direction indices of the steps of a path of adjacent cells.
Dirns(p) ==
    [i \in 1 .. Len(p) - 1 |-> CHOOSE d \in 1 .. 4 : p[i + 1] = Moved(p[i], d)]

\* The direction sequences of all paths from cur that visit every cell of
\* rest once and stop at e.
RECURSIVE Hamiltonian(_, _, _)
Hamiltonian(cur, rest, e) ==
    IF rest = {} THEN (IF cur = e THEN {<<>>} ELSE {})
    ELSE UNION {{<<d>> \o q : q \in Hamiltonian(Moved(cur, d),
                                                rest \ {Moved(cur, d)}, e)} :
                d \in {k \in 1 .. 4 : Moved(cur, k) \in rest}}

AllHamiltonian == Hamiltonian(start_pos, Cells(size) \ {start_pos}, end_pos)

\* a is lexicographically at most b, for sequences of one length.
LexLeq(a, b) ==
    \/ a = b
    \/ \E k \in 1 .. Len(a) :
           /\ a[k] < b[k]
           /\ \A j \in 1 .. k - 1 : a[j] = b[j]

\* C20: whenever a Hamiltonian path from start to end exists, either
\* strategy returns the one whose sequence of step directions, as indices
\* into _search_dirns, is lexicographically least among all of them.
TheoremC20 ==
    (Returned /\ AllHamiltonian # {}) =>
        /\ result # <<>>
        /\ Dirns(result) \in AllHamiltonian
        /\ \A q \in AllHamiltonian : LexLeq(Dirns(result), q)

\* A path was returned for a request that has several Hamiltonian paths,
\* one of them starting with a different direction.
WitnessC20 ==
    /\ Returned
    /\ result # <<>>
    /\ size = <<3, 3>>
    /\ \E q \in AllHamiltonian : q[1] # Dirns(result)[1]

====
